---- MODULE Spec2Model ----
(***************************************************************************)
(* Model of scripts/falcon-1/falcon-1.ipynb: the Falcon 1 ascent script    *)
(* (cells "Ignition to MECO" and "MECO to SECO-1"), its helper functions   *)
(* and the pitch-rate parameter sweep.                                     *)
(*                                                                         *)
(* Numbers.  Python floats are modelled as exact rationals:                *)
(*   - a throttle is a reduced fraction <<n, d>> with d > 0;               *)
(*   - target_twr and g are held in hundredths (1.3 is 130, 9.81 is 981);  *)
(*   - pitch angles are held in microdegrees (PitchScale per degree) and   *)
(*     pitch rates in microdegrees per second, which makes the four-decimal*)
(*     coefficients of calc_pitch_rate exact for payloads that are whole   *)
(*     multiples of 100 kg;                                                *)
(*   - the wall clock is held in ticks of TickSeconds seconds.             *)
(* Floating-point rounding is not modelled.                                *)
(***************************************************************************)
EXTENDS Integers, Sequences, FiniteSets, TLC

VARIABLES
    pc,               \* position of the script (source line of the next statement)
    g,                \* global g, surface gravity in hundredths of m/s^2
    tel,              \* simulator telemetry polled by the loop conditions
    clock,            \* wall clock returned by time.time(), in ticks
    throttle,         \* vessel.control.throttle as last written
    target_twr,       \* script variable target_twr, in hundredths
    pitch_rate,       \* script variable pitch_rate, microdegrees per second
    pitch_start,      \* script variable pitch_start, in ticks
    ap,               \* autopilot: engaged flag and last commanded pitch/heading
    stages,           \* activate_next_stage calls made so far, in order
    last_poll,        \* loop whose condition read telemetry most recently
    slept_ms,         \* milliseconds slept since that read
    poll_gap,         \* milliseconds slept between the last two reads of one loop
    payload_kg,       \* sum of child.mass (kg) that pitch_rate was computed from, 0 if none
    loop_cmds,        \* autopilot commands issued by the current pitch-over loop (0, 1, 2 = more)
    fn_args,          \* arguments of an isolated calc_throttle_for_twr call
    fn_ret,           \* its return value
    sweep             \* state of the parameter sweep

vars == <<pc, g, tel, clock, throttle, target_twr, pitch_rate, pitch_start, ap,
          stages, last_poll, slept_ms, poll_gap, payload_kg, loop_cmds,
          fn_args, fn_ret, sweep>>

----------------------------------------------------------------------------
(* Bounds of the model *)

MaxMass == 1            \* vessel mass ranges over 1..MaxMass tonnes
MaxThrustLevel == 2     \* available thrust ranges over multiples of ThrustUnit
ThrustUnit == 10        \* kN per thrust level
MaxClock == 1           \* the clock stops advancing after MaxClock ticks
TickSeconds == 80       \* seconds per clock tick
MaxChildren == 1        \* parts attached to the payload decoupler

----------------------------------------------------------------------------
(* Arithmetic helpers *)

Abs(x) == IF x < 0 THEN -x ELSE x

RECURSIVE GCD(_, _)
GCD(a, b) == IF b = 0 THEN a ELSE GCD(b, a % b)

\* the quotient n / d of a float division, d # 0, as a reduced fraction
Frac(n, d) ==
    LET s == IF d < 0 THEN -1 ELSE 1
        k == GCD(Abs(n), Abs(d))
    IN  <<(s * n) \div k, (s * d) \div k>>

Zero == <<0, 1>>
One == <<1, 1>>

\* min(1.0, x)
Min1(x) == IF x[1] < x[2] THEN x ELSE One

RECURSIVE SumSeq(_)
SumSeq(s) == IF s = <<>> THEN 0 ELSE Head(s) + SumSeq(Tail(s))

PitchScale == 1000000

Deg(d) == d * PitchScale

----------------------------------------------------------------------------
(* Helper functions of the notebook *)

\* find_payload_mass: children is the list of child.mass values (kg) of the
\* payload decoupler; the result is the payload mass in tenths of a tonne.
find_payload_mass(children) == SumSeq(children) \div 100

\* calc_throttle_for_twr(target_twr, vessel): vessel carries the two fields
\* the function reads, mass (t) and available_thrust (kN).
calc_throttle_for_twr(twr, vessel) ==
    LET mass == vessel.mass
        weight == mass * g
    IN  IF vessel.available_thrust = 0
        THEN Zero
        ELSE Min1(Frac(twr * weight, 10000 * vessel.available_thrust))

calc_pitch_rate_linear(m) == 2590 * m + 580100

\* calc_pitch_rate = lambda m: 0.0041*m**2 + 0.0259*m + 0.5801, with m in
\* tenths of a tonne and the result in microdegrees per second.
calc_pitch_rate(m) == 41 * m * m + 2590 * m + 580100

TargetPitch_plus(start_pitch, elapsed, rate) ==
    Deg(start_pitch) + elapsed * TickSeconds * rate

\* start_pitch - (time.time() - pitch_start)*pitch_rate
TargetPitch(start_pitch, elapsed, rate) ==
    Deg(start_pitch) - elapsed * TickSeconds * rate

----------------------------------------------------------------------------
(* Values the simulator can report *)

VerticalSpeeds == {0, 100}
Pitches == {Deg(90), Deg(45), Deg(0)}
Apoapses == {0, 30000, 100000}
Telemetry == [vertical_speed : VerticalSpeeds, pitch : Pitches,
              apoapsis_altitude : Apoapses]

Masses == 1..MaxMass
Thrusts == {k * ThrustUnit : k \in 0..MaxThrustLevel}
Vessels == [mass : Masses, available_thrust : Thrusts]

PartMasses == {100, 1200}
RECURSIVE SeqsUpTo(_, _)
SeqsUpTo(S, n) ==
    IF n = 0 THEN {<<>>}
    ELSE LET shorter == SeqsUpTo(S, n - 1)
         IN  shorter \cup {Append(s, x) : s \in shorter, x \in S}
ChildLists == SeqsUpTo(PartMasses, MaxChildren)

----------------------------------------------------------------------------
(* Loop conditions of the ascent *)

ClimbContinues_gt(t) == t.vertical_speed > 100

\* while ...vertical_speed < 100.0
ClimbContinues(t) == t.vertical_speed < 100

\* while vessel.flight().pitch > 45.0
PitchOverContinues(t) == t.pitch > Deg(45)

\* while vessel.orbit.apoapsis_altitude < 30000
HoldContinues(t) == t.apoapsis_altitude < 30000

\* while vessel.flight().pitch > 0.0
SecondPitchOverContinues(t) == t.pitch > Deg(0)

HorizontalBurnContinues_le(t) == t.apoapsis_altitude <= 100000

\* while vessel.orbit.apoapsis_altitude < 100000.0
HorizontalBurnContinues(t) == t.apoapsis_altitude < 100000

----------------------------------------------------------------------------
(* Effects shared by the statements of the script *)

\* a loop condition reads telemetry
Poll(loop) ==
    /\ last_poll' = loop
    /\ poll_gap' = IF last_poll = loop THEN slept_ms ELSE -1
    /\ slept_ms' = 0

\* time.sleep(ms / 1000); the interval is shorter than a clock tick, the
\* clock itself advances through Tick
Sleep(ms) ==
    /\ slept_ms' = slept_ms + ms
    /\ UNCHANGED <<last_poll, poll_gap>>

NoPoll == UNCHANGED <<last_poll, slept_ms, poll_gap>>

\* vessel.control.throttle = calc_throttle_for_twr(target_twr, vessel)
SetThrottleForTwr(twr) ==
    \E v \in Vessels :
        /\ target_twr' = twr
        /\ throttle' = calc_throttle_for_twr(twr, v)

\* vessel.auto_pilot.target_pitch_and_heading(pitch, heading)
Command(pitch, heading) ==
    ap' = [ap EXCEPT !.pitch = pitch, !.heading = heading, !.commanded = TRUE]

\* vessel.control.activate_next_stage()
ActivateNextStage(what) == stages' = Append(stages, what)

NoSweep == UNCHANGED <<fn_args, fn_ret, sweep, g>>

NoPayload == UNCHANGED payload_kg

----------------------------------------------------------------------------
(* Cell "Ignition to MECO" *)

L133 ==
    /\ pc = "L133"
    /\ Command(Deg(90), 90)
    /\ pc' = "L134"
    /\ NoPoll /\ NoSweep /\ NoPayload
    /\ UNCHANGED <<tel, clock, throttle, target_twr, pitch_rate, pitch_start,
                   stages, loop_cmds>>

L134 ==
    /\ pc = "L134"
    /\ ap' = [ap EXCEPT !.engaged = TRUE]
    /\ pc' = "L135"
    /\ NoPoll /\ NoSweep /\ NoPayload
    /\ UNCHANGED <<tel, clock, throttle, target_twr, pitch_rate, pitch_start,
                   stages, loop_cmds>>

L135 ==
    /\ pc = "L135"
    /\ Sleep(1000)
    /\ pc' = "L138"
    /\ NoSweep /\ NoPayload
    /\ UNCHANGED <<tel, clock, throttle, target_twr, pitch_rate, pitch_start,
                   ap, stages, loop_cmds>>

L138 ==
    /\ pc = "L138"
    /\ SetThrottleForTwr(130)
    /\ pc' = "L140"
    /\ NoPoll /\ NoSweep /\ NoPayload
    /\ UNCHANGED <<tel, clock, pitch_rate, pitch_start, ap, stages, loop_cmds>>

L140 ==
    /\ pc = "L140"
    /\ ActivateNextStage("ignition")
    /\ pc' = "L143"
    /\ NoPoll /\ NoSweep /\ NoPayload
    /\ UNCHANGED <<tel, clock, throttle, target_twr, pitch_rate, pitch_start,
                   ap, loop_cmds>>

L143 ==
    /\ pc = "L143"
    /\ Poll("climb")
    /\ pc' = IF ClimbContinues(tel) THEN "L144" ELSE "L148"
    /\ NoSweep /\ NoPayload
    /\ UNCHANGED <<tel, clock, throttle, target_twr, pitch_rate, pitch_start,
                   ap, stages, loop_cmds>>

L144 ==
    /\ pc = "L144"
    /\ SetThrottleForTwr(target_twr)
    /\ pc' = "L145"
    /\ NoPoll /\ NoSweep /\ NoPayload
    /\ UNCHANGED <<tel, clock, pitch_rate, pitch_start, ap, stages, loop_cmds>>

L145 ==
    /\ pc = "L145"
    /\ Sleep(100)
    /\ pc' = "L143"
    /\ NoSweep /\ NoPayload
    /\ UNCHANGED <<tel, clock, throttle, target_twr, pitch_rate, pitch_start,
                   ap, stages, loop_cmds>>

L148 ==
    /\ pc = "L148"
    /\ SetThrottleForTwr(150)
    /\ pc' = "L150"
    /\ NoPoll /\ NoSweep /\ NoPayload
    /\ UNCHANGED <<tel, clock, pitch_rate, pitch_start, ap, stages, loop_cmds>>

L150 ==
    /\ pc = "L150"
    /\ \E children \in ChildLists :
           /\ payload_kg' = SumSeq(children)
           /\ pitch_rate' = calc_pitch_rate(find_payload_mass(children))
    /\ pc' = "L152"
    /\ NoPoll /\ NoSweep
    /\ UNCHANGED <<tel, clock, throttle, target_twr, pitch_start, ap, stages,
                   loop_cmds>>

L152 ==
    /\ pc = "L152"
    /\ pitch_start' = clock
    /\ loop_cmds' = 0
    /\ pc' = "L153"
    /\ NoPoll /\ NoSweep /\ NoPayload
    /\ UNCHANGED <<tel, clock, throttle, target_twr, pitch_rate, ap, stages>>

L153 ==
    /\ pc = "L153"
    /\ Poll("pitch_over")
    /\ pc' = IF PitchOverContinues(tel) THEN "L154" ELSE "L157"
    /\ NoSweep /\ NoPayload
    /\ UNCHANGED <<tel, clock, throttle, target_twr, pitch_rate, pitch_start,
                   ap, stages, loop_cmds>>

L154 ==
    /\ pc = "L154"
    /\ SetThrottleForTwr(target_twr)
    /\ pc' = "L155"
    /\ NoPoll /\ NoSweep /\ NoPayload
    /\ UNCHANGED <<tel, clock, pitch_rate, pitch_start, ap, stages, loop_cmds>>

L155 ==
    /\ pc = "L155"
    /\ Command(TargetPitch(90, clock - pitch_start, pitch_rate), 90)
    /\ loop_cmds' = IF loop_cmds = 0 THEN 1 ELSE 2
    /\ pc' = "L153"
    /\ NoPoll /\ NoSweep /\ NoPayload
    /\ UNCHANGED <<tel, clock, throttle, target_twr, pitch_rate, pitch_start,
                   stages>>

L157 ==
    /\ pc = "L157"
    /\ Sleep(100)
    /\ pc' = "L160"
    /\ NoSweep /\ NoPayload
    /\ UNCHANGED <<tel, clock, throttle, target_twr, pitch_rate, pitch_start,
                   ap, stages, loop_cmds>>

L160 ==
    /\ pc = "L160"
    /\ Poll("hold")
    /\ pc' = IF HoldContinues(tel) THEN "L161" ELSE "L163"
    /\ NoSweep /\ NoPayload
    /\ UNCHANGED <<tel, clock, throttle, target_twr, pitch_rate, pitch_start,
                   ap, stages, loop_cmds>>

L161 ==
    /\ pc = "L161"
    /\ SetThrottleForTwr(target_twr)
    /\ pc' = "L162"
    /\ NoPoll /\ NoSweep /\ NoPayload
    /\ UNCHANGED <<tel, clock, pitch_rate, pitch_start, ap, stages, loop_cmds>>

L162 ==
    /\ pc = "L162"
    /\ Command(Deg(45), 90)
    /\ pc' = "L160"
    /\ NoPoll /\ NoSweep /\ NoPayload
    /\ UNCHANGED <<tel, clock, throttle, target_twr, pitch_rate, pitch_start,
                   stages, loop_cmds>>

L163 ==
    /\ pc = "L163"
    /\ Sleep(100)
    /\ pc' = "L166"
    /\ NoSweep /\ NoPayload
    /\ UNCHANGED <<tel, clock, throttle, target_twr, pitch_rate, pitch_start,
                   ap, stages, loop_cmds>>

L166_keep ==
    /\ pc = "L166"
    /\ pc' = "L167"
    /\ NoPoll /\ NoSweep /\ NoPayload
    /\ UNCHANGED <<tel, clock, throttle, target_twr, pitch_rate, pitch_start,
                   ap, stages, loop_cmds>>

\* MECO
L166 ==
    /\ pc = "L166"
    /\ throttle' = Zero
    /\ pc' = "L167"
    /\ NoPoll /\ NoSweep /\ NoPayload
    /\ UNCHANGED <<tel, clock, target_twr, pitch_rate, pitch_start, ap, stages,
                   loop_cmds>>

L167 ==
    /\ pc = "L167"
    /\ ActivateNextStage("stage separation")
    /\ pc' = "L168"
    /\ NoPoll /\ NoSweep /\ NoPayload
    /\ UNCHANGED <<tel, clock, throttle, target_twr, pitch_rate, pitch_start,
                   ap, loop_cmds>>

L168 ==
    /\ pc = "L168"
    /\ Sleep(100)
    /\ pc' = "L185"
    /\ NoSweep /\ NoPayload
    /\ UNCHANGED <<tel, clock, throttle, target_twr, pitch_rate, pitch_start,
                   ap, stages, loop_cmds>>

----------------------------------------------------------------------------
(* Cell "MECO to SECO-1" *)

L185 ==
    /\ pc = "L185"
    /\ ActivateNextStage("second engine startup")
    /\ pc' = "L186"
    /\ NoPoll /\ NoSweep /\ NoPayload
    /\ UNCHANGED <<tel, clock, throttle, target_twr, pitch_rate, pitch_start,
                   ap, loop_cmds>>

L186 ==
    /\ pc = "L186"
    /\ pitch_rate' = Deg(1)
    /\ payload_kg' = 0
    /\ pitch_start' = clock
    /\ loop_cmds' = 0
    /\ pc' = "L190"
    /\ NoPoll /\ NoSweep
    /\ UNCHANGED <<tel, clock, throttle, target_twr, ap, stages>>

L190 ==
    /\ pc = "L190"
    /\ Poll("second_pitch_over")
    /\ pc' = IF SecondPitchOverContinues(tel) THEN "L191" ELSE "L195"
    /\ NoSweep /\ NoPayload
    /\ UNCHANGED <<tel, clock, throttle, target_twr, pitch_rate, pitch_start,
                   ap, stages, loop_cmds>>

L191 ==
    /\ pc = "L191"
    /\ SetThrottleForTwr(175)
    /\ pc' = "L193"
    /\ NoPoll /\ NoSweep /\ NoPayload
    /\ UNCHANGED <<tel, clock, pitch_rate, pitch_start, ap, stages, loop_cmds>>

L193 ==
    /\ pc = "L193"
    /\ Command(TargetPitch(45, clock - pitch_start, pitch_rate), 90)
    /\ loop_cmds' = IF loop_cmds = 0 THEN 1 ELSE 2
    /\ pc' = "L190"
    /\ NoPoll /\ NoSweep /\ NoPayload
    /\ UNCHANGED <<tel, clock, throttle, target_twr, pitch_rate, pitch_start,
                   stages>>

L195 ==
    /\ pc = "L195"
    /\ Sleep(100)
    /\ pc' = "L198"
    /\ NoSweep /\ NoPayload
    /\ UNCHANGED <<tel, clock, throttle, target_twr, pitch_rate, pitch_start,
                   ap, stages, loop_cmds>>

L198 ==
    /\ pc = "L198"
    /\ Poll("horizontal_burn")
    /\ pc' = IF HorizontalBurnContinues(tel) THEN "L199" ELSE "L202"
    /\ NoSweep /\ NoPayload
    /\ UNCHANGED <<tel, clock, throttle, target_twr, pitch_rate, pitch_start,
                   ap, stages, loop_cmds>>

L199 ==
    /\ pc = "L199"
    /\ SetThrottleForTwr(175)
    /\ pc' = "L201"
    /\ NoPoll /\ NoSweep /\ NoPayload
    /\ UNCHANGED <<tel, clock, pitch_rate, pitch_start, ap, stages, loop_cmds>>

L201 ==
    /\ pc = "L201"
    /\ Command(Deg(0), 90)
    /\ pc' = "L198"
    /\ NoPoll /\ NoSweep /\ NoPayload
    /\ UNCHANGED <<tel, clock, throttle, target_twr, pitch_rate, pitch_start,
                   stages, loop_cmds>>

L202 ==
    /\ pc = "L202"
    /\ Sleep(100)
    /\ pc' = "L205"
    /\ NoSweep /\ NoPayload
    /\ UNCHANGED <<tel, clock, throttle, target_twr, pitch_rate, pitch_start,
                   ap, stages, loop_cmds>>

\* SECO-1
L205 ==
    /\ pc = "L205"
    /\ throttle' = Zero
    /\ pc' = "done"
    /\ NoPoll /\ NoSweep /\ NoPayload
    /\ UNCHANGED <<tel, clock, target_twr, pitch_rate, pitch_start, ap, stages,
                   loop_cmds>>

----------------------------------------------------------------------------
(* The simulator and the wall clock *)

\* the flight simulation moves on between two remote calls: one reading
\* changes per step, any number of steps fit between two statements
SimStep ==
    /\ \E t \in Telemetry \ {tel} :
           /\ Cardinality({f \in DOMAIN t : t[f] # tel[f]}) = 1
           /\ tel' = t
    /\ UNCHANGED <<pc, g, clock, throttle, target_twr, pitch_rate, pitch_start,
                   ap, stages, last_poll, slept_ms, poll_gap, loop_cmds,
                   payload_kg, fn_args, fn_ret, sweep>>

\* the wall clock is non-decreasing
Tick ==
    /\ clock < MaxClock
    /\ clock' = clock + 1
    /\ UNCHANGED <<pc, g, tel, throttle, target_twr, pitch_rate, pitch_start,
                   ap, stages, last_poll, slept_ms, poll_gap, loop_cmds,
                   payload_kg, fn_args, fn_ret, sweep>>

----------------------------------------------------------------------------
(* The ascent: state after the Startup, Constants and Helper cells *)

NoCall == [called |-> FALSE]
NoSweepState == [active |-> FALSE]

InitVessel ==
    /\ tel \in Telemetry
    /\ clock = 0
    /\ throttle = Zero
    /\ target_twr = 0
    /\ pitch_rate = 0
    /\ pitch_start = 0
    /\ ap = [engaged |-> FALSE, commanded |-> FALSE, pitch |-> 0, heading |-> 0]
    /\ stages = <<>>
    /\ last_poll = "none"
    /\ slept_ms = 0
    /\ poll_gap = -1
    /\ payload_kg = 0
    /\ loop_cmds = 0

Init ==
    /\ pc = "L133"
    /\ g = 981
    /\ InitVessel
    /\ fn_args = NoCall
    /\ fn_ret = NoCall
    /\ sweep = NoSweepState

Script ==
    \/ L133 \/ L134 \/ L135 \/ L138 \/ L140
    \/ L143 \/ L144 \/ L145
    \/ L148 \/ L150 \/ L152 \/ L153 \/ L154 \/ L155 \/ L157
    \/ L160 \/ L161 \/ L162 \/ L163
    \/ L166 \/ L167 \/ L168
    \/ L185 \/ L186 \/ L190 \/ L191 \/ L193 \/ L195
    \/ L198 \/ L199 \/ L201 \/ L202 \/ L205

Next == Script \/ SimStep \/ Tick

Spec == Init /\ [][Next]_vars

\* the script is a sequential program: its next statement always runs
LiveSpec == Init /\ [][Next]_vars /\ WF_vars(Script)

----------------------------------------------------------------------------
(* calc_throttle_for_twr in isolation: one call on arbitrary arguments *)

Gravities == {163, 981}
TargetTwrs == {130, 150, 175}
AnyMasses == 1..(MaxMass + 2)
AnyThrusts == {k * ThrustUnit : k \in (0 - MaxThrustLevel)..MaxThrustLevel}

FnInit ==
    /\ pc = "call"
    /\ g \in Gravities
    /\ InitVessel
    /\ tel = [vertical_speed |-> 0, pitch |-> Deg(90), apoapsis_altitude |-> 0]
    /\ fn_args \in [called : {TRUE}, target_twr : TargetTwrs, mass : AnyMasses,
                    available_thrust : AnyThrusts]
    /\ fn_ret = NoCall
    /\ sweep = NoSweepState

CallThrottle ==
    /\ pc = "call"
    /\ fn_ret' = [called |-> TRUE,
                  value |-> calc_throttle_for_twr(fn_args.target_twr,
                               [mass |-> fn_args.mass,
                                available_thrust |-> fn_args.available_thrust])]
    /\ pc' = "returned"
    /\ UNCHANGED <<g, tel, clock, throttle, target_twr, pitch_rate, pitch_start,
                   ap, stages, last_poll, slept_ms, poll_gap, payload_kg,
                   loop_cmds, fn_args, sweep>>

FnNext == CallThrottle

FnSpec == FnInit /\ [][FnNext]_vars

----------------------------------------------------------------------------
(* Properties of calc_throttle_for_twr *)

\* x <= y for two reduced fractions with small terms
FracLeq(x, y) == x[1] * y[2] <= y[1] * x[2]

\* C1: calc_throttle_for_twr returns min(1.0, target_twr * mass * g /
\* available_thrust) when available_thrust > 0 and 0.0 for every other
\* available_thrust.
C1_ThrottleContract ==
    fn_ret.called =>
        LET n == fn_args.target_twr * fn_args.mass * g
            d == 10000 * fn_args.available_thrust
        IN  IF fn_args.available_thrust > 0
            THEN fn_ret.value = (IF n >= d THEN One ELSE Frac(n, d))
            ELSE fn_ret.value = Zero

\* the target TWR cannot be met with the thrust that is available
TwrTooHigh(twr, mass, thrust) == twr * mass * g > 10000 * thrust

\* C2: every value calc_throttle_for_twr returns lies in 0.0..1.0, and it is
\* 1.0 whenever the target TWR is too high for the available thrust.
C2_ThrottleRange ==
    fn_ret.called =>
        /\ FracLeq(Zero, fn_ret.value)
        /\ FracLeq(fn_ret.value, One)
        /\ TwrTooHigh(fn_args.target_twr, fn_args.mass, fn_args.available_thrust)
               => fn_ret.value = One

----------------------------------------------------------------------------
(* Properties of the ascent *)

ClimbLoop == {"L143", "L144", "L145"}
PitchOverLoop == {"L153", "L154", "L155"}
HoldLoop == {"L160", "L161", "L162"}
SecondPitchOverLoop == {"L190", "L191", "L193"}
HorizontalBurnLoop == {"L198", "L199", "L201"}

\* C3: the first-stage pitch rate is 0.0041*m^2 + 0.0259*m + 0.5801 for the
\* payload mass m read before the pitch-over loop, it does not change while
\* the loop runs, and every pitch the loop commands is computed with it.
C3_PitchRateFromPayload ==
    [][/\ pc' \in PitchOverLoop =>
            LET m == payload_kg' \div 100
            IN  /\ payload_kg' = 100 * m
                /\ pitch_rate' = 41 * m * m + 2590 * m + 580100
       /\ (pc \in PitchOverLoop /\ pc' \in PitchOverLoop) =>
            /\ pitch_rate' = pitch_rate
            /\ payload_kg' = payload_kg
       /\ (pc = "L155" /\ pc' = "L153") =>
            ap'.pitch = Deg(90) - (clock - pitch_start) * TickSeconds * pitch_rate
      ]_vars

C3_Witness ==
    /\ pc = "L153"
    /\ loop_cmds = 2
    /\ payload_kg = 1200
    /\ ap.pitch < Deg(90)

\* an autopilot command issued by a pitch-over loop
PitchOverCommand == (pc = "L155" \/ pc = "L193") /\ pc' # pc

StartPitch == IF pc = "L155" THEN Deg(90) ELSE Deg(45)

\* C4 as stated: the pitch a pitch-over loop commands first is its start pitch.
C4_FirstCommandIsStartPitch ==
    /\ (pc = "L153" /\ loop_cmds = 1) => ap.pitch = Deg(90)
    /\ (pc = "L190" /\ loop_cmds = 1) => ap.pitch = Deg(45)

\* C4 amended: every pitch a pitch-over loop commands is start_pitch -
\* elapsed * pitch_rate (start 90.0 with the payload rate, start 45.0 with
\* rate 1.0); it never exceeds the start pitch, equals it when no time has
\* elapsed since pitch_start, and does not increase from one iteration to the
\* next.
C4_LinearPitch ==
    [][PitchOverCommand =>
          LET elapsed == (clock - pitch_start) * TickSeconds
              rate == IF pc = "L155"
                      THEN LET m == payload_kg \div 100
                           IN  41 * m * m + 2590 * m + 580100
                      ELSE Deg(1)
          IN  /\ ap'.pitch = StartPitch - elapsed * rate
              /\ ap'.pitch <= StartPitch
              /\ elapsed = 0 => ap'.pitch = StartPitch
              /\ loop_cmds >= 1 => ap'.pitch <= ap.pitch
      ]_vars

C4_Witness ==
    /\ pc = "L190"
    /\ loop_cmds = 2
    /\ clock > pitch_start
    /\ ap.pitch < Deg(45)

\* C5: between two consecutive telemetry reads of one polling loop the script
\* sleeps the fixed interval of 0.1 s once.
C5_SleepEveryIteration == poll_gap \in {-1, 100}

\* the statements of each ascent phase: before launch, vertical climb,
\* pitch-over to 45 degrees, hold 45 degrees, MECO, second-stage pitch-over,
\* horizontal burn, SECO-1
PhaseStatements ==
    <<{"L133", "L134", "L135", "L138", "L140"},
      ClimbLoop,
      {"L148", "L150", "L152"} \cup PitchOverLoop,
      {"L157"} \cup HoldLoop,
      {"L163", "L166", "L167", "L168"},
      {"L185", "L186"} \cup SecondPitchOverLoop,
      {"L195"} \cup HorizontalBurnLoop,
      {"L202", "L205", "done"}>>

\* the ascent phase a statement belongs to
PhaseOf ==
    [l \in UNION {PhaseStatements[k] : k \in 1..Len(PhaseStatements)} |->
        (CHOOSE k \in 1..Len(PhaseStatements) : l \in PhaseStatements[k]) - 1]

Phase(l) == PhaseOf[l]

\* C6: the phases follow one another in order, one at a time, and a polling
\* phase is left in a step that read telemetry meeting its exit condition.
C6_PhaseOrder ==
    [][/\ Phase(pc') \in {Phase(pc), Phase(pc) + 1}
       /\ (Phase(pc) = 1 /\ Phase(pc') = 2) =>
              (pc = "L143" /\ tel.vertical_speed >= 100)
       /\ (Phase(pc) = 2 /\ Phase(pc') = 3) =>
              (pc = "L153" /\ tel.pitch <= Deg(45))
       /\ (Phase(pc) = 3 /\ Phase(pc') = 4) =>
              (pc = "L160" /\ tel.apoapsis_altitude >= 30000)
       /\ (Phase(pc) = 5 /\ Phase(pc') = 6) =>
              (pc = "L190" /\ tel.pitch <= Deg(0))
       /\ (Phase(pc) = 6 /\ Phase(pc') = 7) =>
              (pc = "L198" /\ tel.apoapsis_altitude >= 100000)
      ]_vars

C6_Witness == pc = "done" /\ last_poll = "horizontal_burn" /\ poll_gap = 0

StageOrder == <<"ignition", "stage separation", "second engine startup">>

\* C8: activate_next_stage is called three times, for ignition, stage
\* separation and second engine startup in that order; ignition follows the
\* autopilot engagement and the throttle setting for TWR 1.3, stage separation
\* follows the MECO throttle of 0.0, the throttle stays 0.0 between MECO and the
\* second engine startup and it is 0.0 when the script ends.
C8_Staging ==
    [][/\ stages' = SubSeq(StageOrder, 1, Len(stages'))
       /\ Len(stages') \in {Len(stages), Len(stages) + 1}
       /\ (Len(stages) = 0 /\ Len(stages') = 1) =>
              /\ ap.engaged /\ ap.commanded
              /\ target_twr = 130
              /\ \E v \in Vessels : throttle = calc_throttle_for_twr(130, v)
       /\ (Len(stages) = 1 /\ Len(stages') = 2) =>
              (pc = "L167" /\ throttle = Zero)
       /\ pc' \in {"L167", "L168", "L185", "L186"} => throttle' = Zero
       /\ pc' = "done" => (throttle' = Zero /\ stages' = StageOrder)
      ]_vars

C8_Witness == pc = "done" /\ Len(stages) = 3 /\ throttle = Zero

\* a call of target_pitch_and_heading
AutopilotCommand == pc \in {"L133", "L155", "L162", "L193", "L201"} /\ pc' # pc

\* C9 as stated: every command has heading 90.0 and a pitch within 45..90
\* degrees until MECO and within 0..45 degrees from the second engine startup.
C9_PitchWithinStageRange ==
    [][AutopilotCommand =>
          /\ ap'.heading = 90
          /\ Len(stages) <= 1 => (Deg(45) <= ap'.pitch /\ ap'.pitch <= Deg(90))
          /\ Len(stages) = 3 => (Deg(0) <= ap'.pitch /\ ap'.pitch <= Deg(45))
      ]_vars

\* C9 amended: every command has heading 90.0 and a pitch of at most 90
\* degrees until MECO and at most 45 degrees from the second engine startup;
\* the hold loop commands exactly 45 degrees and the horizontal burn exactly 0
\* degrees, but a pitch-over loop has no lower limit on what it commands.
C9_PitchBelowStageStart ==
    [][AutopilotCommand =>
          /\ ap'.heading = 90
          /\ Len(stages) <= 1 => ap'.pitch <= Deg(90)
          /\ Len(stages) = 3 => ap'.pitch <= Deg(45)
          /\ pc = "L162" => ap'.pitch = Deg(45)
          /\ pc = "L201" => ap'.pitch = Deg(0)
      ]_vars

C9_Witness ==
    /\ pc = "L153"
    /\ tel.pitch > Deg(45)
    /\ loop_cmds >= 1
    /\ ap.pitch < Deg(45)

\* the telemetry eventually meets the exit condition of every loop whenever
\* that loop reads it
ExitConditionsObserved ==
    /\ <>[](pc = "L143" => tel.vertical_speed >= 100)
    /\ <>[](pc = "L153" => tel.pitch <= Deg(45))
    /\ <>[](pc = "L160" => tel.apoapsis_altitude >= 30000)
    /\ <>[](pc = "L190" => tel.pitch <= Deg(0))
    /\ <>[](pc = "L198" => tel.apoapsis_altitude >= 100000)

\* no loop is left in a step whose telemetry misses its exit condition
LoopsHoldWithoutExit ==
    /\ (pc \in ClimbLoop /\ tel.vertical_speed < 100)
           => pc' \in ClimbLoop
    /\ (pc \in PitchOverLoop /\ tel.pitch > Deg(45))
           => pc' \in PitchOverLoop
    /\ (pc \in HoldLoop /\ tel.apoapsis_altitude < 30000)
           => pc' \in HoldLoop
    /\ (pc \in SecondPitchOverLoop /\ tel.pitch > Deg(0))
           => pc' \in SecondPitchOverLoop
    /\ (pc \in HorizontalBurnLoop /\ tel.apoapsis_altitude < 100000)
           => pc' \in HorizontalBurnLoop

\* C10: if the telemetry eventually meets each loop's exit condition the
\* script reaches SECO-1 with throttle 0.0; no loop is left in a step whose
\* telemetry misses its exit condition, so a loop whose exit condition is
\* never met is never left.
C10_ReachesSECO ==
    /\ ExitConditionsObserved => <>(pc = "done" /\ throttle = Zero)
    /\ [][LoopsHoldWithoutExit]_vars

C10_Witness ==
    /\ pc = "done"
    /\ throttle = Zero
    /\ tel.apoapsis_altitude >= 100000
    /\ last_poll = "horizontal_burn"
    /\ poll_gap = -1

----------------------------------------------------------------------------
(* The parameter sweep (last cell of the notebook) *)

saves == <<"pad_125", "pad_125", "pad_000", "pad_000">>

\* pitch_rates = [0.5, 0.6, 0.7, 0.8, 0.9, 1.0], microdegrees per second
pitch_rates == <<500000, 600000, 700000, 800000, 900000, 1000000>>

\* vessel.flight().mean_altitude when run j of sweep iteration i returns
\* (metres): lower for a faster pitch-over and a heavier payload, and not the
\* same in two runs
SimMeanAltitude(i, j) == 20000 - 1500 * j + 400 * (i \div 2) + 7 * i

\* vessel.orbit.apoapsis_altitude at the same moment: under thrust the
\* apoapsis lies above the vessel
SimApoapsisAltitude(i, j) == SimMeanAltitude(i, j) + 8000

DigitChars == <<"0", "1", "2", "3", "4", "5", "6", "7", "8", "9">>

RECURSIVE Digits(_)
Digits(n) ==
    IF n < 10 THEN <<DigitChars[n + 1]>>
    ELSE Append(Digits(n \div 10), DigitChars[(n % 10) + 1])

\* f'{asc}\n' for a float asc with an integral value
FormatLine(asc) == Digits(asc) \o <<".", "0", "\n">>

OutputFileName_nosuffix(save, i) == <<save, 0>>

\* f'{save}_{i%2}.txt'
OutputFileName(save, i) == <<save, i % 2>>

PadTelemetry == [vertical_speed |-> 0, pitch |-> Deg(90), apoapsis_altitude |-> 0]

\* conn.space_center.load(save): the game returns to the saved state
LoadSave(save) ==
    /\ tel' = PadTelemetry
    /\ throttle' = Zero
    /\ ap' = [engaged |-> FALSE, commanded |-> FALSE, pitch |-> 0, heading |-> 0]
    /\ stages' = <<>>

SweepFrame == UNCHANGED <<g, fn_args, fn_ret, payload_kg>>

\* the flight simulation as the sweep sees it: find_ascent_altitude polls the
\* vertical speed and the pitch only
SweepSimStep ==
    /\ \E t \in Telemetry \ {tel} :
           /\ Cardinality({f \in DOMAIN t : t[f] # tel[f]}) = 1
           /\ t.apoapsis_altitude = tel.apoapsis_altitude
           /\ tel' = t
    /\ UNCHANGED <<pc, g, clock, throttle, target_twr, pitch_rate, pitch_start,
                   ap, stages, last_poll, slept_ms, poll_gap, loop_cmds,
                   payload_kg, fn_args, fn_ret, sweep>>

S247 ==
    /\ pc = "S247"
    /\ pc' = IF sweep.i < Len(saves) THEN "S248" ELSE "sweep_done"
    /\ NoPoll /\ SweepFrame
    /\ UNCHANGED <<tel, clock, throttle, target_twr, pitch_rate, pitch_start,
                   ap, stages, loop_cmds, sweep>>

S248 ==
    /\ pc = "S248"
    /\ LoadSave(saves[sweep.i + 1])
    /\ sweep' = [sweep EXCEPT !.loaded = saves[sweep.i + 1],
                              !.runs_since_load = 0,
                              !.j = 0,
                              !.ascent_altitudes = <<>>]
    /\ pc' = "S252"
    /\ NoPoll /\ SweepFrame
    /\ UNCHANGED <<clock, target_twr, pitch_rate, pitch_start, loop_cmds>>

S252 ==
    /\ pc = "S252"
    /\ pc' = IF sweep.j < Len(pitch_rates) THEN "S253" ELSE "S256"
    /\ NoPoll /\ SweepFrame
    /\ UNCHANGED <<tel, clock, throttle, target_twr, pitch_rate, pitch_start,
                   ap, stages, loop_cmds, sweep>>

S253 ==
    /\ pc = "S253"
    /\ LoadSave(saves[sweep.i + 1])
    /\ sweep' = [sweep EXCEPT !.loaded = saves[sweep.i + 1],
                              !.runs_since_load = 0]
    /\ pc' = "S254"
    /\ NoPoll /\ SweepFrame
    /\ UNCHANGED <<clock, target_twr, pitch_rate, pitch_start, loop_cmds>>

\* asc_alt = find_ascent_altitude(pitch_rate): the call
S254 ==
    /\ pc = "S254"
    /\ pitch_rate' = pitch_rates[sweep.j + 1]
    /\ sweep' = [sweep EXCEPT !.runs_since_load = @ + 1,
                              !.run_reloaded = (sweep.runs_since_load = 0)]
    /\ pc' = "S221"
    /\ NoPoll /\ SweepFrame
    /\ UNCHANGED <<tel, clock, throttle, target_twr, pitch_start, ap, stages,
                   loop_cmds>>

S221 ==
    /\ pc = "S221"
    /\ Command(Deg(90), 90)
    /\ pc' = "S222"
    /\ NoPoll /\ SweepFrame
    /\ UNCHANGED <<tel, clock, throttle, target_twr, pitch_rate, pitch_start,
                   stages, loop_cmds, sweep>>

S222 ==
    /\ pc = "S222"
    /\ ap' = [ap EXCEPT !.engaged = TRUE]
    /\ pc' = "S223"
    /\ NoPoll /\ SweepFrame
    /\ UNCHANGED <<tel, clock, throttle, target_twr, pitch_rate, pitch_start,
                   stages, loop_cmds, sweep>>

S223 ==
    /\ pc = "S223"
    /\ Sleep(1000)
    /\ pc' = "S226"
    /\ SweepFrame
    /\ UNCHANGED <<tel, clock, throttle, target_twr, pitch_rate, pitch_start,
                   ap, stages, loop_cmds, sweep>>

S226 ==
    /\ pc = "S226"
    /\ SetThrottleForTwr(130)
    /\ pc' = "S228"
    /\ NoPoll /\ SweepFrame
    /\ UNCHANGED <<tel, clock, pitch_rate, pitch_start, ap, stages, loop_cmds,
                   sweep>>

S228 ==
    /\ pc = "S228"
    /\ ActivateNextStage("ignition")
    /\ pc' = "S231"
    /\ NoPoll /\ SweepFrame
    /\ UNCHANGED <<tel, clock, throttle, target_twr, pitch_rate, pitch_start,
                   ap, loop_cmds, sweep>>

S231 ==
    /\ pc = "S231"
    /\ Poll("climb")
    /\ pc' = IF ClimbContinues(tel) THEN "S232" ELSE "S236"
    /\ SweepFrame
    /\ UNCHANGED <<tel, clock, throttle, target_twr, pitch_rate, pitch_start,
                   ap, stages, loop_cmds, sweep>>

S232 ==
    /\ pc = "S232"
    /\ SetThrottleForTwr(target_twr)
    /\ pc' = "S233"
    /\ NoPoll /\ SweepFrame
    /\ UNCHANGED <<tel, clock, pitch_rate, pitch_start, ap, stages, loop_cmds,
                   sweep>>

S233 ==
    /\ pc = "S233"
    /\ Sleep(100)
    /\ pc' = "S231"
    /\ SweepFrame
    /\ UNCHANGED <<tel, clock, throttle, target_twr, pitch_rate, pitch_start,
                   ap, stages, loop_cmds, sweep>>

S236 ==
    /\ pc = "S236"
    /\ SetThrottleForTwr(150)
    /\ pc' = "S238"
    /\ NoPoll /\ SweepFrame
    /\ UNCHANGED <<tel, clock, pitch_rate, pitch_start, ap, stages, loop_cmds,
                   sweep>>

S238 ==
    /\ pc = "S238"
    /\ pitch_start' = clock
    /\ loop_cmds' = 0
    /\ pc' = "S239"
    /\ NoPoll /\ SweepFrame
    /\ UNCHANGED <<tel, clock, throttle, target_twr, pitch_rate, ap, stages,
                   sweep>>

S239 ==
    /\ pc = "S239"
    /\ Poll("pitch_over")
    /\ pc' = IF PitchOverContinues(tel) THEN "S240" ELSE "S243"
    /\ SweepFrame
    /\ UNCHANGED <<tel, clock, throttle, target_twr, pitch_rate, pitch_start,
                   ap, stages, loop_cmds, sweep>>

S240 ==
    /\ pc = "S240"
    /\ SetThrottleForTwr(target_twr)
    /\ pc' = "S241"
    /\ NoPoll /\ SweepFrame
    /\ UNCHANGED <<tel, clock, pitch_rate, pitch_start, ap, stages, loop_cmds,
                   sweep>>

S241 ==
    /\ pc = "S241"
    /\ Command(TargetPitch(90, clock - pitch_start, pitch_rate), 90)
    /\ loop_cmds' = IF loop_cmds = 0 THEN 1 ELSE 2
    /\ pc' = "S239"
    /\ NoPoll /\ SweepFrame
    /\ UNCHANGED <<tel, clock, throttle, target_twr, pitch_rate, pitch_start,
                   stages, sweep>>

\* return vessel.flight().mean_altitude; ascent_altitudes.append(asc_alt)
S243 ==
    /\ pc = "S243"
    /\ LET asc_alt == SimMeanAltitude(sweep.i, sweep.j)
       IN  sweep' = [sweep EXCEPT
               !.ascent_altitudes = Append(@, asc_alt),
               !.runs = Append(@, [save |-> sweep.loaded,
                                   rate |-> pitch_rate,
                                   reloaded |-> sweep.run_reloaded,
                                   result |-> asc_alt,
                                   apoapsis |-> SimApoapsisAltitude(sweep.i,
                                                                    sweep.j)]),
               !.j = @ + 1]
    /\ pc' = "S252"
    /\ NoPoll /\ SweepFrame
    /\ UNCHANGED <<tel, clock, throttle, target_twr, pitch_rate, pitch_start,
                   ap, stages, loop_cmds>>

\* with open(f'{save}_{i%2}.txt', 'w') as f: one line per ascent altitude
S256 ==
    /\ pc = "S256"
    /\ LET name == OutputFileName(saves[sweep.i + 1], sweep.i)
           lines == [k \in 1..Len(sweep.ascent_altitudes) |->
                        FormatLine(sweep.ascent_altitudes[k])]
       IN  sweep' = [sweep EXCEPT
               !.files = [n \in DOMAIN sweep.files \cup {name} |->
                             IF n = name THEN lines ELSE sweep.files[n]]]
    /\ pc' = "S259"
    /\ NoPoll /\ SweepFrame
    /\ UNCHANGED <<tel, clock, throttle, target_twr, pitch_rate, pitch_start,
                   ap, stages, loop_cmds>>

\* print(f'Completed {i+1} of 6'), then the next save
S259 ==
    /\ pc = "S259"
    /\ sweep' = [sweep EXCEPT !.completed = sweep.i + 1, !.i = @ + 1]
    /\ pc' = "S247"
    /\ NoPoll /\ SweepFrame
    /\ UNCHANGED <<tel, clock, throttle, target_twr, pitch_rate, pitch_start,
                   ap, stages, loop_cmds>>

SweepInit ==
    /\ pc = "S247"
    /\ g = 981
    /\ InitVessel
    /\ tel.apoapsis_altitude = 0
    /\ fn_args = NoCall
    /\ fn_ret = NoCall
    /\ sweep = [active |-> TRUE, i |-> 0, j |-> 0,
                ascent_altitudes |-> <<>>, files |-> <<>>,
                loaded |-> "none", runs_since_load |-> 0,
                run_reloaded |-> FALSE, runs |-> <<>>, completed |-> 0]

SweepScript ==
    \/ S247 \/ S248 \/ S252 \/ S253 \/ S254
    \/ S221 \/ S222 \/ S223 \/ S226 \/ S228
    \/ S231 \/ S232 \/ S233
    \/ S236 \/ S238 \/ S239 \/ S240 \/ S241 \/ S243
    \/ S256 \/ S259

SweepNext == SweepScript \/ SweepSimStep \/ Tick

SweepSpec == SweepInit /\ [][SweepNext]_vars

----------------------------------------------------------------------------
(* Properties of the parameter sweep *)

\* the runs of sweep iteration i (counted from 0) are runs 6i+1 .. 6i+6
RunOf(i, k) == sweep.runs[Len(pitch_rates) * i + k]

\* sweep iterations whose output file has been written
Written == IF pc = "S259" THEN sweep.i + 1 ELSE sweep.i

SweepShape(value(_)) ==
    /\ Cardinality(DOMAIN sweep.files) = Written
    /\ \A r \in 1..Len(sweep.runs) : sweep.runs[r].reloaded
    /\ \A i \in 0..(Written - 1) :
          LET name == <<saves[i + 1], i % 2>>
          IN  /\ name \in DOMAIN sweep.files
              /\ Len(sweep.files[name]) = Len(pitch_rates)
              /\ \A k \in 1..Len(pitch_rates) :
                    /\ RunOf(i, k).save = saves[i + 1]
                    /\ RunOf(i, k).rate = pitch_rates[k]
                    /\ sweep.files[name][k] = FormatLine(value(RunOf(i, k)))

ApoapsisOf(run) == run.apoapsis
ResultOf(run) == run.result

\* C7 as stated: each output line is the apoapsis altitude its run reached.
C7_LogsApoapsis == SweepShape(ApoapsisOf)

\* C7 amended: every run follows a reload of its save, each save gets one run
\* per pitch rate, and its file holds one line per run, in sweep order, that
\* is the mean altitude find_ascent_altitude returned; the four files are
\* distinct.
C7_LogsReturnedAltitude == SweepShape(ResultOf)

C7_Witness ==
    /\ pc = "sweep_done"
    /\ sweep.completed = 4
    /\ Cardinality(DOMAIN sweep.files) = 4
    /\ Len(sweep.runs) = 24

====
